---- MODULE Spec2Model ----
(***************************************************************************)
(* Dispatch-and-failover engine of the SMS sender: the carrier registry    *)
(* and failover selector (operators.py), the delivery executor and the     *)
(* queue processor (sender.py).  The persistence collaborator (database)   *)
(* and the rate limiter class are not among the source files; they are     *)
(* modelled from the specification's sections 4.4, 4.8 and 6.              *)
(***************************************************************************)
EXTENDS Integers, Sequences, FiniteSets, TLC

VARIABLES heap, operadores, ultimo, now, cola, registros, rate_limiters,
          limitadores, admitidos, hilo, cambios, fallosBD, deteccion,
          seleccion

vars == <<heap, operadores, ultimo, now, cola, registros, rate_limiters,
          limitadores, admitidos, hilo, cambios, fallosBD, deteccion,
          seleccion>>

(* ------------------------------ bounds -------------------------------- *)

\* largest attempt number handed to the selector by a direct call
MaxIntento == 3
\* OperadorConfig objects ever constructed (3 predefined + custom ones)
MaxObjetos == 4

(* --------------------------- small helpers ---------------------------- *)

Min(a, b) == IF a < b THEN a ELSE b

Rango(s) == {s[i] : i \in 1..Len(s)}

(* ------------------- operators.py: carrier registry ------------------- *)

\* OperadorConfig.__init__: the fields the engine reads
OperadorConfig(operador, prioridad, max_por_minuto, habilitado) ==
    [operador |-> operador, prioridad |-> prioridad,
     max_por_minuto |-> max_por_minuto, habilitado |-> habilitado]

\* the three OperadorConfig objects built by the class body, in declaration
\* order: object i of the heap is the i-th of them
ObjetosPredefinidos ==
    << OperadorConfig("principal", 1, 100, TRUE),
       OperadorConfig("backup1", 2, 100, FALSE),
       OperadorConfig("backup2", 3, 100, FALSE) >>

\* the class-level dict: key -> reference to the object
OPERADORES_PREDEFINIDOS ==
    << [nombre |-> "principal", obj |-> 1],
       [nombre |-> "backup1", obj |-> 2],
       [nombre |-> "backup2", obj |-> 3] >>

\* OperadorRouter.__init__: dict.copy() is shallow, the objects are shared
RouterInit == OPERADORES_PREDEFINIDOS

\* position of a key in the insertion-ordered dict, 0 when absent
Posicion(dic, nombre) ==
    IF \E i \in 1..Len(dic) : dic[i].nombre = nombre
    THEN CHOOSE i \in 1..Len(dic) : dic[i].nombre = nombre
    ELSE 0

\* OperadorRouter.obtener_operador: dict.get(nombre), 0 stands for None
obtener_operador(nombre) ==
    IF Posicion(operadores, nombre) = 0 THEN 0
    ELSE operadores[Posicion(operadores, nombre)].obj

\* the list comprehension of obtener_operador_siguiente: objects of the
\* registry, in dict order, whose habilitado flag is set
Filtrar(dic, h) ==
    LET RECURSIVE F(_)
        F(i) == IF i > Len(dic) THEN <<>>
                ELSE IF h[dic[i].obj].habilitado
                     THEN <<dic[i].obj>> \o F(i + 1)
                     ELSE F(i + 1)
    IN F(1)

\* insertion of x after every element whose priority is <= x's (stable)
InsertarEstable(s, x, h) ==
    LET RECURSIVE I(_)
        I(i) == IF i > Len(s) THEN Len(s) + 1
                ELSE IF h[s[i]].prioridad > h[x].prioridad THEN i
                     ELSE I(i + 1)
        k == I(1)
    IN SubSeq(s, 1, k - 1) \o <<x>> \o SubSeq(s, k, Len(s))

\* list.sort(key=lambda x: x.prioridad): a stable sort
OrdenarPorPrioridad(s, h) ==
    LET RECURSIVE O(_)
        O(n) == IF n = 0 THEN <<>>
                ELSE InsertarEstable(O(n - 1), s[n], h)
    IN O(Len(s))

operadores_habilitados(dic, h) == OrdenarPorPrioridad(Filtrar(dic, h), h)

\* a selector that falls back to the carrier registered last
SiguienteUltimo(dic, h, intento) ==
    LET habs == operadores_habilitados(dic, h)
    IN IF habs = <<>>
       THEN dic[Len(dic)].obj
       ELSE habs[(intento % Len(habs)) + 1]

\* a selector that forgets the enabled filter and rotates over every carrier
SiguienteSinFiltro(dic, h, intento) ==
    LET todos == OrdenarPorPrioridad([i \in 1..Len(dic) |-> dic[i].obj], h)
    IN todos[(intento % Len(todos)) + 1]

\* OperadorRouter.obtener_operador_siguiente: the object returned.  The
\* operador_fallido argument is never read by the code.
SiguienteEn(dic, h, intento) ==
    LET habs == operadores_habilitados(dic, h)
    IN IF habs = <<>>
       THEN dic[Posicion(dic, "principal")].obj
       ELSE habs[(intento % Len(habs)) + 1]

obtener_operador_siguiente(intento) == SiguienteEn(operadores, heap, intento)

\* a variant that creates the entry of a name it does not find
HabilitarOCrear(h, dic, nombre, habilitado) ==
    IF Posicion(dic, nombre) # 0
    THEN [heap |-> [h EXCEPT ![dic[Posicion(dic, nombre)].obj].habilitado = habilitado],
          ret |-> TRUE]
    ELSE [heap |-> Append(h, [operador |-> nombre, prioridad |-> 1,
                              max_por_minuto |-> 100, habilitado |-> habilitado]),
          ret |-> TRUE]

\* OperadorRouter.habilitar_operador: the new heap (the flag is set on the
\* object the key refers to) and the value returned
habilitar_operador(h, dic, nombre, habilitado) ==
    IF Posicion(dic, nombre) # 0
    THEN [heap |-> [h EXCEPT ![dic[Posicion(dic, nombre)].obj].habilitado = habilitado],
          ret |-> TRUE]
    ELSE [heap |-> h, ret |-> FALSE]

\* OperadorRouter.agregar_operador: dict assignment keeps the position of
\* an existing key and appends a new one
agregar_operador(dic, nombre, obj) ==
    IF Posicion(dic, nombre) # 0
    THEN [dic EXCEPT ![Posicion(dic, nombre)].obj = obj]
    ELSE Append(dic, [nombre |-> nombre, obj |-> obj])

(* ---------------- operators.py: carrier detection ---------------------- *)

\* a phone number is a string: a sequence of characters
\* OperadorRouter.OPERADOR_PREFIJOS, in dict order
OPERADOR_PREFIJOS ==
    << [operador |-> "movistar",
        prefijos |-> << <<"3","1","0">>, <<"3","1","1">>, <<"3","2","0">>, <<"3","2","1">> >>],
       [operador |-> "claro",
        prefijos |-> << <<"3","0","1">>, <<"3","0","2">>, <<"3","0","3">>,
                        <<"3","0","4">>, <<"3","0","5">> >>],
       [operador |-> "wom", prefijos |-> << <<"3","2","2">>, <<"3","2","3">> >>],
       [operador |-> "directv", prefijos |-> << <<"3","1","2">> >>] >>

\* str.strip(): leading and trailing whitespace removed
RECURSIVE Strip(_)
Strip(s) ==
    IF Len(s) = 0 THEN s
    ELSE IF s[1] = " " THEN Strip(Tail(s))
    ELSE IF s[Len(s)] = " " THEN Strip(SubSeq(s, 1, Len(s) - 1))
    ELSE s

\* str.startswith('57')
EmpiezaCon57(s) == Len(s) >= 2 /\ s[1] = "5" /\ s[2] = "7"

\* the slice numero[:3]
Prefijo(s) == SubSeq(s, 1, Min(3, Len(s)))

\* the loop over OPERADOR_PREFIJOS: the first entry whose list holds the
\* prefix, 'principal' when none does
BuscarPrefijo(prefijo) ==
    LET RECURSIVE B(_)
        B(i) == IF i > Len(OPERADOR_PREFIJOS) THEN "principal"
                ELSE IF prefijo \in Rango(OPERADOR_PREFIJOS[i].prefijos)
                     THEN OPERADOR_PREFIJOS[i].operador
                     ELSE B(i + 1)
    IN B(1)

\* a detection that looks at the first three characters as they come
DetectarSinPais(numero) == BuscarPrefijo(Prefijo(Strip(numero)))

\* OperadorRouter.detectar_operador_por_numero
detectar_operador_por_numero(numero) ==
    LET n1 == Strip(numero)
        n2 == IF EmpiezaCon57(n1) THEN SubSeq(n1, 3, Len(n1)) ELSE n1
    IN BuscarPrefijo(Prefijo(n2))

(* ------------------- sender.py: message templater --------------------- *)

\* a message is a sequence of tokens: literal text, or a placeholder {nombre}
Lit(txt) == [tipo |-> "lit", txt |-> txt]
Var(nombre) == [tipo |-> "var", txt |-> nombre]

\* str.replace(placeholder, valor) over the tokens
Reemplazar(mensaje, columna, valor) ==
    [i \in 1..Len(mensaje) |->
        IF mensaje[i] = Var(columna) THEN Lit(valor) ELSE mensaje[i]]

\* SMSSender.preparar_mensaje: row_data is a sequence of <<columna, valor>>
\* pairs in dict order (<<>> for None or {}), link_dinamico "" for None
preparar_mensaje(mensaje, row_data, link_dinamico) ==
    LET RECURSIVE Filas(_, _)
        Filas(m, k) == IF k > Len(row_data) THEN m
                       ELSE Filas(Reemplazar(m, row_data[k][1], row_data[k][2]), k + 1)
        conDatos == Filas(mensaje, 1)
    IN IF link_dinamico # "" THEN Reemplazar(conDatos, "link", link_dinamico)
       ELSE conDatos

\* a rendered message without a single character
MensajeVacio(m) == \A i \in 1..Len(m) : m[i] = Lit("")

\* a length test that looks at the template's parts, not at its characters
LongitudCeroPartes(m) == Len(m) = 0

\* the test of line 76, len(mensaje_procesado) == 0: the characters of the
\* message are those of its tokens that are not the empty text
LongitudCero(m) == Len(SelectSeq(m, LAMBDA x : x # Lit(""))) = 0

(* ------------- persistence collaborator (specification 4.8, 6) -------- *)

\* items of the queue
NumItems == 2
\* global max-retry ceiling
MaxReintentos == 1
\* largest value of the clock
MaxTiempo == 2
\* storage failures (raised by a persistence call) in one behaviour
MaxFallosBD == 1

Items == 1..NumItems

\* SMSSender.BACKOFF_DELAYS
BACKOFF_DELAYS == <<1, 5, 30, 300, 1800>>

\* the delay scheduled after the n-th executed attempt, clamped to the last
Retardo(n) == BACKOFF_DELAYS[Min(IF n < 1 THEN 1 ELSE n, Len(BACKOFF_DELAYS))]

\* what callers enqueue: template, row data, dynamic link
Catalogo ==
    << [mensaje |-> <<Lit("Hola "), Var("nombre")>>,
        row_data |-> << <<"nombre", "Ana">> >>, link |-> ""],
       [mensaje |-> <<>>, row_data |-> <<>>, link |-> ""],
       [mensaje |-> <<Lit("Ver "), Var("link")>>,
        row_data |-> <<>>, link |-> "http://x/y"],
       [mensaje |-> <<Var("nombre")>>,
        row_data |-> << <<"nombre", "">> >>, link |-> ""] >>

ItemNuevo(i) ==
    LET c == Catalogo[((i - 1) % Len(Catalogo)) + 1]
    IN [mensaje |-> c.mensaje, row_data |-> c.row_data, link |-> c.link,
        estado |-> "pending", intentos |-> 0, operador |-> "",
        ultimo_intento |-> 0]

\* an item that has been attempted and whose time since the last attempt is
\* below the delay scheduled for its attempt count
EnEspera(it, t) ==
    it.intentos >= 1 /\ t - it.ultimo_intento < Retardo(it.intentos)

\* a pull that hands out every item, whatever its state
ElegibleSiempre(it, t) == it.intentos >= 0

\* an item is handed out when pending, or when waiting for a retry whose
\* backoff delay has elapsed
Elegible(it, t) ==
    \/ it.estado = "pending"
    \/ it.estado = "reintentando" /\ ~EnEspera(it, t)

\* get_pending(limit): the eligible items in id order, at most limit, each
\* a copy of the row as it is now; a read, it changes no row
obtener_pendientes(c, t, limit) ==
    LET RECURSIVE P(_)
        P(i) == IF i > NumItems THEN <<>>
                ELSE IF Elegible(c[i], t)
                     THEN <<[id |-> i, estado |-> c[i].estado,
                             intentos |-> c[i].intentos,
                             operador |-> c[i].operador,
                             mensaje |-> c[i].mensaje]>> \o P(i + 1)
                     ELSE P(i + 1)
        todos == P(1)
    IN SubSeq(todos, 1, Min(limit, Len(todos)))

\* the terminal states of an item
Terminales == {"delivered", "fallido"}

\* record_attempt: the item after one more executed attempt; an item in a
\* terminal state stays in it
actualizar_intento(it, operador, estado, t) ==
    [it EXCEPT !.intentos = it.intentos + 1,
               !.operador = operador,
               !.ultimo_intento = t,
               !.estado = IF it.estado \in Terminales THEN it.estado
                          ELSE IF estado = "enviado" THEN "delivered"
                          ELSE IF it.intentos + 1 > MaxReintentos THEN "fallido"
                          ELSE "reintentando"]

(* ------------------- rate limiter (specification 4.4) ------------------ *)

\* length of the trailing window, seconds
VENTANA == 60

\* RateLimiter(max_por_minuto): a fresh instance
RateLimiter(max_por_minuto) == [max |-> max_por_minuto, ventana |-> <<>>]

\* admissions of a sequence of timestamps still inside the window at t
EnVentana(ts, t) == SelectSeq(ts, LAMBDA x : t - x < VENTANA)

\* esperar() returns as soon as admitting the caller keeps the window
\* within the cap
PuedePasar(l, t) == Len(EnVentana(l.ventana, t)) < l.max

Admitir(l, t) == [l EXCEPT !.ventana = Append(EnVentana(l.ventana, t), t)]

(* ------------------------- initial state ------------------------------ *)

Hilos == {"h1", "h2"}

\* every name a caller may pass, "fantasma" being a name never registered
Nombres == {"principal", "backup1", "backup2", "extra"}
NombresLlamada == Nombres \cup {"fantasma"}

\* a thread: where it is (pc), the operation it runs (op), the batch it
\* pulled and its position in it, the locals of enviar_sms_ahora (qid,
\* nombre, obj, msg, visto, lim), and what its last call of enviar_sms_ahora
\* did: its result (res), the attempt records it persisted (grabados), the
\* limiter acquisitions (adq), signatures (firmas) and requests (posts) it
\* made, whether its rendered message was empty (vacio), whether the
\* selector found no enabled carrier (sinHab), whether the item was still
\* inside its backoff delay when the call was made (temprano), and, once the
\* operation is over, the items of the batch it never handled (sobran)
HiloInicial ==
    [pc |-> "idle", op |-> "ninguna", lote |-> <<>>, idx |-> 0, sobran |-> 0,
     qid |-> 0, nombre |-> "", obj |-> 0, msg |-> <<>>, visto |-> FALSE,
     lim |-> 0, sinHab |-> FALSE, temprano |-> FALSE, vacio |-> FALSE,
     res |-> "ninguno", grabados |-> 0, adq |-> 0, firmas |-> 0, posts |-> 0]

\* a call of obtener_operador_siguiente followed step by step: where it is
\* (pc), its argument, the iterator over self.operadores.values() (its
\* position k and the size tam of the dict when it was created), the list
\* built so far, the value returned (res), and the results the call would
\* have given on each state the registry went through during the call
SeleccionInicial ==
    [pc |-> "idle", intento |-> 0, k |-> 0, tam |-> 0, lista |-> <<>>,
     res |-> 0, candidatos |-> {}]

InitComun ==
    /\ heap = ObjetosPredefinidos
    /\ operadores = RouterInit
    /\ ultimo = [intento |-> -1, obj |-> 0, n |-> 0, habilitado |-> FALSE]
    /\ now = 0
    /\ rate_limiters = [n \in NombresLlamada |-> 0]
    /\ limitadores = <<>>
    /\ admitidos = [n \in NombresLlamada |-> <<>>]
    /\ registros = [i \in Items |-> [ok |-> 0, error |-> 0]]
    /\ cola = [i \in Items |-> ItemNuevo(i)]
    /\ hilo = [p \in Hilos |-> HiloInicial]
    /\ cambios = 0
    /\ fallosBD = 0
    /\ deteccion = [numero |-> <<>>, operador |-> ""]
    /\ seleccion = SeleccionInicial

(* --------------------- registry operations as actions ------------------ *)

\* custom configurations a caller may construct and add
Personalizados ==
    { OperadorConfig(n, pr, 1, TRUE) : n \in {"extra", "principal"}, pr \in {0, 2} }

noRegistro == <<now, cola, registros, rate_limiters, limitadores, admitidos,
                hilo, fallosBD, deteccion, seleccion>>

HabilitarOperador(nombre, habilitado) ==
    /\ heap' = habilitar_operador(heap, operadores, nombre, habilitado).heap
    /\ UNCHANGED <<operadores, ultimo, cambios>>
    /\ UNCHANGED noRegistro

AgregarOperador(config) ==
    /\ Len(heap) < MaxObjetos
    /\ heap' = Append(heap, config)
    /\ operadores' = agregar_operador(operadores, config.operador, Len(heap) + 1)
    /\ UNCHANGED <<ultimo, cambios>>
    /\ UNCHANGED noRegistro

\* the enabled objects of the registry, as a set
Habilitados == {operadores[i].obj : i \in {j \in 1..Len(operadores) : heap[operadores[j].obj].habilitado}}

\* a direct call of obtener_operador_siguiente(intento); ultimo keeps the
\* call: its argument, the object returned, and how many carriers were
\* enabled and whether the returned one was, when the call was made
ObtenerSiguiente(intento) ==
    /\ ultimo' = [intento |-> intento, obj |-> obtener_operador_siguiente(intento),
                  n |-> Cardinality(Habilitados),
                  habilitado |-> heap[obtener_operador_siguiente(intento)].habilitado]
    /\ UNCHANGED <<heap, operadores, cambios>>
    /\ UNCHANGED noRegistro

NextRouter ==
    \/ \E n \in NombresLlamada, b \in BOOLEAN : HabilitarOperador(n, b)
    \/ \E c \in Personalizados : AgregarOperador(c)
    \/ \E i \in 0..MaxIntento : ObtenerSiguiente(i)

SpecRouter == InitComun /\ [][NextRouter]_vars

(* ---------------- sender.py: the delivery executor --------------------- *)

noHilo == <<heap, operadores, ultimo, cambios, deteccion, seleccion>>

\* the next position of the batch the loop body runs for, from position k:
\* procesar_cola runs it for every item, reintentar_fallidos only for the
\* items whose copied state is 'reintentando'
SiguienteIdx(op, lote, k) ==
    LET RECURSIVE B(_)
        B(i) == IF i > Len(lote) THEN Len(lote) + 1
                ELSE IF op = "procesar_cola" \/ lote[i].estado = "reintentando"
                     THEN i
                     ELSE B(i + 1)
    IN B(k)

\* the items of the batch from position k on that the loop would handle
PorHacer(op, lote, k) ==
    Cardinality({i \in k..Len(lote) :
                    op = "procesar_cola" \/ lote[i].estado = "reintentando"})

\* the locals of a finished call are dropped, what the call did is kept
Soltar(h) == [h EXCEPT !.nombre = "", !.obj = 0, !.msg = <<>>,
                       !.visto = FALSE, !.lim = 0]

\* the operation is over: its batch is dropped
Acabar(h, sobran) == [h EXCEPT !.pc = "idle", !.lote = <<>>, !.idx = 0,
                               !.sobran = sobran]

\* enviar_sms_ahora returns res to its caller: a direct caller is done,
\* the loops go on with the next item of the batch and return after the last
Retornar(h, res) ==
    IF h.op = "directo"
    THEN Acabar([Soltar(h) EXCEPT !.res = res], 0)
    ELSE LET k == SiguienteIdx(h.op, h.lote, h.idx + 1)
             h1 == [Soltar(h) EXCEPT !.idx = k, !.res = res, !.pc = "bucle"]
         IN IF k > Len(h.lote) THEN Acabar(h1, 0) ELSE h1

\* an exception leaves enviar_sms_ahora: neither loop catches it, so it
\* leaves the operation too, with the rest of the batch not handled
Propagar(h) ==
    Acabar([Soltar(h) EXCEPT !.res = "excepcion"],
           IF h.op = "directo" THEN 0 ELSE PorHacer(h.op, h.lote, h.idx + 1))

\* lines 61-87 of enviar_sms_ahora, up to the test of the limiter map, for
\* the thread record h (its loop fields already set)
EntrarEnvio(p, h0, queue_id, mensaje, operador_nombre, row_data, link, fallaBD) ==
    LET operador == obtener_operador(operador_nombre)
        mensaje_procesado == preparar_mensaje(mensaje, row_data, link)
        h == [h0 EXCEPT !.qid = queue_id, !.nombre = operador_nombre,
                        !.obj = operador, !.msg = mensaje_procesado,
                        !.grabados = 0, !.adq = 0, !.firmas = 0, !.posts = 0,
                        !.lim = 0, !.visto = FALSE, !.res = "ninguno",
                        !.vacio = (operador # 0 /\ MensajeVacio(mensaje_procesado)),
                        !.temprano = EnEspera(cola[queue_id], now)]
    IN IF operador = 0
       THEN /\ ~fallaBD
            /\ hilo' = [hilo EXCEPT ![p] = Retornar(h, "fallo")]
            /\ UNCHANGED <<cola, registros, fallosBD>>
       ELSE IF LongitudCero(mensaje_procesado)
       THEN IF fallaBD
            THEN /\ fallosBD < MaxFallosBD
                 /\ fallosBD' = fallosBD + 1
                 /\ hilo' = [hilo EXCEPT ![p] = Propagar(h)]
                 /\ UNCHANGED <<cola, registros>>
            ELSE /\ cola' = [cola EXCEPT ![queue_id] =
                               actualizar_intento(@, operador_nombre, "error", now)]
                 /\ registros' = [registros EXCEPT ![queue_id].error = @ + 1]
                 /\ hilo' = [hilo EXCEPT ![p] =
                               Retornar([h EXCEPT !.grabados = 1], "fallo")]
                 /\ UNCHANGED fallosBD
       ELSE /\ ~fallaBD
            /\ hilo' = [hilo EXCEPT ![p] =
                          [h EXCEPT !.pc = "limitador",
                                    !.visto = (rate_limiters[operador_nombre] # 0)]]
            /\ UNCHANGED <<cola, registros, fallosBD>>

\* lines 88-91: the limiter is created and stored when the test found none,
\* then read back from the map
Limitador(p) ==
    LET h == hilo[p]
        nuevo == Len(limitadores) + 1
    IN /\ h.pc = "limitador"
       /\ IF h.visto
          THEN /\ UNCHANGED <<limitadores, rate_limiters>>
               /\ hilo' = [hilo EXCEPT ![p].pc = "esperar",
                                       ![p].lim = rate_limiters[h.nombre]]
          ELSE /\ limitadores' = Append(limitadores, RateLimiter(heap[h.obj].max_por_minuto))
               /\ rate_limiters' = [rate_limiters EXCEPT ![h.nombre] = nuevo]
               /\ hilo' = [hilo EXCEPT ![p].pc = "esperar", ![p].lim = nuevo]
       /\ UNCHANGED <<now, cola, registros, admitidos, fallosBD>>
       /\ UNCHANGED noHilo

\* a variant that issues the request without waiting at the limiter
EsperarSinLimitador(p) ==
    /\ hilo[p].pc = "esperar"
    /\ hilo' = [hilo EXCEPT ![p].pc = "vuelo",
                            ![p].firmas = @ + 1, ![p].posts = @ + 1]
    /\ UNCHANGED <<now, cola, registros, rate_limiters, limitadores,
                   admitidos, fallosBD>>
    /\ UNCHANGED noHilo

\* lines 91-120: esperar() admits the caller, the signature is generated
\* and the request is issued; the thread then waits for the answer
Esperar(p) ==
    LET h == hilo[p]
    IN /\ h.pc = "esperar"
       /\ PuedePasar(limitadores[h.lim], now)
       /\ limitadores' = [limitadores EXCEPT ![h.lim] = Admitir(@, now)]
       /\ admitidos' = [admitidos EXCEPT ![h.nombre] =
                           Append(SelectSeq(@, LAMBDA a : now - a.t < VENTANA),
                                  [t |-> now, obj |-> h.obj])]
       /\ hilo' = [hilo EXCEPT ![p].pc = "vuelo", ![p].adq = @ + 1,
                               ![p].firmas = @ + 1, ![p].posts = @ + 1]
       /\ UNCHANGED <<now, cola, registros, rate_limiters, fallosBD>>
       /\ UNCHANGED noHilo

\* what requests.post does: it returns a response, or raises Timeout,
\* another RequestException, or something else
Desenlaces == {"respuesta", "Timeout", "RequestException", "Exception"}

\* lines 122-192: the outcome is persisted and reported.  falla1 and falla2
\* say whether the first and the second persistence call of this path raise;
\* the second call exists only when the first, made inside the try block
\* after a response, raised and "except Exception" took over
Respuesta(p, desenlace, falla1, falla2) ==
    LET h == hilo[p]
        dos == (desenlace = "respuesta" /\ falla1)
        nFallas == (IF falla1 THEN 1 ELSE 0) + (IF dos /\ falla2 THEN 1 ELSE 0)
        estado == IF desenlace = "respuesta" /\ ~falla1 THEN "enviado" ELSE "error"
        grabado == IF dos THEN ~falla2 ELSE ~falla1
        h1 == [h EXCEPT !.grabados = IF grabado THEN 1 ELSE 0]
    IN /\ h.pc = "vuelo"
       /\ (~dos) => ~falla2
       /\ fallosBD + nFallas <= MaxFallosBD
       /\ fallosBD' = fallosBD + nFallas
       /\ IF grabado
          THEN /\ cola' = [cola EXCEPT ![h.qid] =
                             actualizar_intento(@, h.nombre, estado, now)]
               /\ registros' = [registros EXCEPT
                                  ![h.qid].ok = @ + (IF estado = "enviado" THEN 1 ELSE 0),
                                  ![h.qid].error = @ + (IF estado = "enviado" THEN 0 ELSE 1)]
               /\ hilo' = [hilo EXCEPT ![p] =
                             Retornar(h1, IF estado = "enviado" THEN "ok" ELSE "fallo")]
          ELSE /\ hilo' = [hilo EXCEPT ![p] = Propagar(h1)]
               /\ UNCHANGED <<cola, registros>>
       /\ UNCHANGED <<now, rate_limiters, limitadores, admitidos>>
       /\ UNCHANGED noHilo

(* ---------------- sender.py: the queue processor ----------------------- *)

\* limit= of the two pulls
LimiteProcesar == 50
LimiteReintentar == 100

\* procesar_cola / reintentar_fallidos, up to the loop: the batch is pulled
\* (procesar_cola returns at once when it is empty)
Iniciar(p, op) ==
    LET lote == obtener_pendientes(cola, now,
                    IF op = "procesar_cola" THEN LimiteProcesar ELSE LimiteReintentar)
        k == SiguienteIdx(op, lote, 1)
    IN /\ hilo[p].pc = "idle"
       /\ hilo' = [hilo EXCEPT ![p] =
                     IF k > Len(lote) THEN [HiloInicial EXCEPT !.op = op]
                     ELSE [HiloInicial EXCEPT !.op = op, !.lote = lote,
                                              !.idx = k, !.pc = "bucle"]]
       /\ UNCHANGED <<now, cola, registros, rate_limiters, limitadores, admitidos, fallosBD>>
       /\ UNCHANGED noHilo

\* one turn of the loop body: the carrier is selected with the attempt count
\* copied into the batch, and enviar_sms_ahora is called with the item's id,
\* number and template, without row data and without dynamic link
Iterar(p, fallaBD) ==
    LET h == hilo[p]
        item == h.lote[h.idx]
        operador == obtener_operador_siguiente(item.intentos)
    IN /\ h.pc = "bucle"
       /\ EntrarEnvio(p, [h EXCEPT !.sinHab = (Habilitados = {})],
                      item.id, item.mensaje, heap[operador].operador, <<>>, "", fallaBD)
       /\ UNCHANGED <<now, rate_limiters, limitadores, admitidos>>
       /\ UNCHANGED noHilo

\* time passes
Tick ==
    /\ now < MaxTiempo
    /\ now' = now + 1
    /\ UNCHANGED <<cola, registros, rate_limiters, limitadores, admitidos, hilo, fallosBD>>
    /\ UNCHANGED noHilo

\* registry changes made while the queue is being processed
MaxCambios == 1

CambiarRegistro(nombre, habilitado) ==
    /\ cambios < MaxCambios
    /\ heap' = habilitar_operador(heap, operadores, nombre, habilitado).heap
    /\ heap' # heap
    /\ cambios' = cambios + 1
    /\ UNCHANGED <<operadores, ultimo>>
    /\ UNCHANGED noRegistro

\* each periodic job runs on a thread of its own and never overlaps itself
Trabajo == [h1 |-> "procesar_cola", h2 |-> "reintentar_fallidos"]

Next ==
    \/ \E p \in Hilos : Iniciar(p, Trabajo[p])
    \/ \E p \in Hilos, f \in BOOLEAN : Iterar(p, f)
    \/ \E p \in Hilos : Limitador(p)
    \/ \E p \in Hilos : Esperar(p)
    \/ \E p \in Hilos, d \in Desenlaces, f1, f2 \in BOOLEAN : Respuesta(p, d, f1, f2)
    \/ Tick
    \/ \E n \in {"principal", "backup1"}, b \in BOOLEAN : CambiarRegistro(n, b)

Spec == InitComun /\ [][Next]_vars

(* ------------- direct calls of enviar_sms_ahora ------------------------ *)

\* direct calls of enviar_sms_ahora in one behaviour
MaxLlamadas == 2

\* a caller invokes enviar_sms_ahora(queue_id, numero, mensaje,
\* operador_nombre, row_data, link_dinamico) on thread p; cambios counts
\* the calls made
Llamar(p, queue_id, c, operador_nombre, fallaBD) ==
    /\ hilo[p].pc = "idle"
    /\ cambios < MaxLlamadas
    /\ cambios' = cambios + 1
    /\ EntrarEnvio(p, [HiloInicial EXCEPT !.op = "directo"], queue_id,
                   Catalogo[c].mensaje, operador_nombre,
                   Catalogo[c].row_data, Catalogo[c].link, fallaBD)
    /\ UNCHANGED <<now, rate_limiters, limitadores, admitidos>>
    /\ UNCHANGED <<heap, operadores, ultimo, deteccion, seleccion>>

\* a caller registers a carrier of its own, or redefines "principal", with
\* a cap of one send per minute
Registrar(config) ==
    /\ Len(heap) < MaxObjetos
    /\ heap' = Append(heap, config)
    /\ operadores' = agregar_operador(operadores, config.operador, Len(heap) + 1)
    /\ UNCHANGED <<ultimo, cambios>>
    /\ UNCHANGED noRegistro

NextEnvio ==
    \/ \E p \in Hilos, c \in {1, 2, 4},
          n \in {"principal", "extra", "fantasma"}, f \in BOOLEAN :
          Llamar(p, 1, c, n, f)
    \/ \E p \in Hilos : Limitador(p)
    \/ \E p \in Hilos : Esperar(p)
    \/ \E p \in Hilos, d \in Desenlaces, f1, f2 \in BOOLEAN : Respuesta(p, d, f1, f2)
    \/ \E n \in {"principal", "extra"} : Registrar(OperadorConfig(n, 1, 1, TRUE))

SpecEnvio == InitComun /\ [][NextEnvio]_vars

(* ------------------------------ C1 ------------------------------------ *)

\* C1: whenever N >= 1 carriers are enabled, the selector called with the
\* attempt numbers 0..N-1 returns every enabled carrier exactly once, in
\* ascending priority order (ties in declaration order), and never a
\* disabled one; attempt 0 returns a carrier of the best priority.
C1_RondaCompleta ==
    LET N == Cardinality(Habilitados)
        sel(i) == obtener_operador_siguiente(i)
    IN
    /\ N >= 1 =>
         /\ {sel(i) : i \in 0..(N - 1)} = Habilitados
         /\ \A i, j \in 0..(N - 1) : i # j => sel(i) # sel(j)
         /\ \A i, j \in 0..(N - 1) :
               i < j => heap[sel(i)].prioridad <= heap[sel(j)].prioridad
         /\ \A o \in Habilitados : heap[sel(0)].prioridad <= heap[o].prioridad
    /\ (ultimo.intento >= 0 /\ ultimo.n >= 1) => ultimo.habilitado

\* three carriers are enabled, one of them added with a better priority
\* than the predefined ones, and the last attempt of the round was served
C1_Witness ==
    /\ Cardinality(Habilitados) = 3
    /\ Len(operadores) = 4
    /\ heap[operadores[4].obj].prioridad = 0
    /\ heap[operadores[4].obj].habilitado
    /\ ultimo.intento = 2
    /\ ultimo.n = 3
    /\ ultimo.obj = obtener_operador_siguiente(2)
    /\ heap[ultimo.obj].operador # "principal"
    /\ heap[obtener_operador_siguiente(0)].operador = "extra"

(* --------------------------- C2 .. C10 --------------------------------- *)

\* a call of enviar_sms_ahora is under way on thread p
EnCurso(p) == hilo[p].pc \in {"limitador", "esperar", "vuelo"}

\* C2: no queue item ever has two delivery attempts in flight at the same
\* time: two threads never wait for the answer to a request for the same
\* item.
C2_EnvioExclusivo ==
    \A p, q \in Hilos :
        (p # q /\ hilo[p].pc = "vuelo" /\ hilo[q].pc = "vuelo")
            => hilo[p].qid # hilo[q].qid

\* the items whose message, as the queue processor dispatches it, has text:
\* their attempts fail only by timeout, transport error or unexpected error
ItemsConTexto ==
    {i \in Items : ~MensajeVacio(preparar_mensaje(cola[i].mensaje, <<>>, ""))}

\* C3: an item whose every attempt failed with a retryable error never gets
\* more than MaxReintentos + 1 executed attempts, and once in the terminal
\* failed state it has had exactly that many: no attempt is executed for it
\* after its retry budget is exhausted.
C3_PresupuestoAgotado ==
    \A i \in ItemsConTexto :
        registros[i].ok = 0 =>
            /\ cola[i].intentos <= MaxReintentos + 1
            /\ cola[i].estado = "fallido" => cola[i].intentos = MaxReintentos + 1

\* C4: no attempt is executed for an item that has been attempted before
\* and whose time since the last attempt is below the delay scheduled for
\* its attempt count.
C4_RespetaBackoff == \A p \in Hilos : ~hilo[p].temprano

\* the admissions of carrier n inside the trailing window that were made by
\* attempts holding the configuration object o
AdmitidosCon(n, o) ==
    Len(SelectSeq(admitidos[n], LAMBDA a : a.obj = o /\ now - a.t < VENTANA))

\* C5: for every carrier, the attempts admitted past the limiter within the
\* trailing 60-second window never outnumber the max-sends-per-minute of
\* the configuration those attempts were made with.
C5_TopePorMinuto ==
    \A n \in NombresLlamada : \A o \in 1..Len(heap) :
        AdmitidosCon(n, o) <= heap[o].max_por_minuto

\* C6: every call of enviar_sms_ahora that is over, whatever its outcome,
\* has persisted exactly one attempt record.
C6_UnRegistroPorLlamada ==
    \A p \in Hilos : hilo[p].res # "ninguno" => hilo[p].grabados = 1

C8_SinOperadorNoDespacha ==
    \A p \in Hilos : ~(hilo[p].sinHab /\ (EnCurso(p) \/ hilo[p].res # "ninguno"))

\* C8 as amended: with no carrier enabled the selector returns the carrier
\* registered as "principal" as its normal result, and the caller, without
\* selecting again, dispatches the item at its position of the batch
\* through it.
C8_RecurreAPrincipal ==
    \A p \in Hilos :
        (hilo[p].sinHab /\ EnCurso(p)) =>
            /\ hilo[p].nombre = "principal"
            /\ hilo[p].obj = obtener_operador("principal")
            /\ hilo[p].idx <= Len(hilo[p].lote)
            /\ hilo[p].qid = hilo[p].lote[hilo[p].idx].id

C8_Witness ==
    \E p \in Hilos :
        /\ hilo[p].sinHab
        /\ hilo[p].pc = "vuelo"
        /\ hilo[p].nombre = "principal"
        /\ ~heap[hilo[p].obj].habilitado
        /\ hilo[p].lote[hilo[p].idx].intentos = 1

\* C9: an operation that is over has handled every item of the batch it
\* pulled.
C9_LoteCompleto == \A p \in Hilos : hilo[p].sobran = 0

\* C10: while the request for an item is in flight the item is in state
\* sending, and a delivered item has exactly one attempt record whose
\* success flag is true.
C10_EntregaUnica ==
    /\ \A p \in Hilos :
          hilo[p].pc = "vuelo" => cola[hilo[p].qid].estado = "sending"
    /\ \A i \in Items :
          cola[i].estado = "delivered" => registros[i].ok = 1

(* --------------------------- C11 .. C20 -------------------------------- *)

\* a call of enviar_sms_ahora made by thread p is over with this step
Termina(p) == hilo'[p] # hilo[p] /\ hilo'[p].res # "ninguno"

\* C11: the attempt count of a queue item never decreases, and every call
\* of enviar_sms_ahora for an item, whatever its outcome, has increased the
\* item's attempt count by exactly 1 when it is over.
C11_CuentaDeIntentos ==
    [][ /\ \A i \in Items : cola'[i].intentos >= cola[i].intentos
        /\ \A p \in Hilos :
              Termina(p) =>
                 cola'[hilo'[p].qid].intentos = cola[hilo'[p].qid].intentos + 1
      ]_vars

\* the carrier names for which the limiter map holds an instance
ConLimitador == {n \in NombresLlamada : rate_limiters[n] # 0}

\* C12: as many limiter instances have been created as there are carrier
\* names with one (at most one per name), and every attempt that is at or
\* past the limiter uses the instance the map holds for its carrier.
C12_UnLimitadorPorOperador ==
    /\ Len(limitadores) = Cardinality(ConLimitador)
    /\ \A p \in Hilos :
          hilo[p].pc \in {"esperar", "vuelo"} =>
              hilo[p].lim = rate_limiters[hilo[p].nombre]

(* ------- the two jobs run one after the other, registry changing ------- *)

\* one thread runs procesar_cola and reintentar_fallidos, never both at a
\* time, while carriers are enabled and disabled; no storage failure
NextRotacion ==
    \/ \E op \in {"procesar_cola", "reintentar_fallidos"} : Iniciar("h1", op)
    \/ Iterar("h1", FALSE)
    \/ Limitador("h1")
    \/ Esperar("h1")
    \/ \E d \in Desenlaces : Respuesta("h1", d, FALSE, FALSE)
    \/ Tick
    \/ \E n \in {"principal", "backup1"}, b \in BOOLEAN : HabilitarOperador(n, b)

SpecRotacion == InitComun /\ [][NextRotacion]_vars

\* the item reintentar_fallidos is about to retry on thread p (line 240 was
\* true for it), in state reintentando
PorReintentar(p) ==
    /\ hilo[p].pc = "bucle"
    /\ hilo[p].op = "reintentar_fallidos"
    /\ cola[hilo[p].lote[hilo[p].idx].id].estado = "reintentando"

\* C13: when reintentar_fallidos is about to retry an item in state
\* reintentando and at least two carriers are enabled, the carrier the
\* selector returns for the item's attempt count (line 248) is not the
\* carrier the item is assigned to.
C13_RotaOperador ==
    \A p \in Hilos :
        (PorReintentar(p) /\ Cardinality(Habilitados) >= 2) =>
            heap[obtener_operador_siguiente(hilo[p].lote[hilo[p].idx].intentos)].operador
                # cola[hilo[p].lote[hilo[p].idx].id].operador

\* C14: habilitar_operador on a name that is not registered returns FALSE
\* and changes nothing; on a registered name it returns TRUE, sets the
\* enabled flag of that carrier to the value given, and changes no other
\* field and no other carrier.  The registry's mapping is not touched by
\* the step.
C14_HabilitarSoloEse ==
    [][ \A nombre \in NombresLlamada, b \in BOOLEAN :
          HabilitarOperador(nombre, b) =>
            LET r == habilitar_operador(heap, operadores, nombre, b)
                o == obtener_operador(nombre)
            IN /\ operadores' = operadores
               /\ Len(heap') = Len(heap)
               /\ IF o = 0
                  THEN r.ret = FALSE /\ heap' = heap
                  ELSE /\ r.ret = TRUE
                       /\ heap'[o] = [heap[o] EXCEPT !.habilitado = b]
                       /\ \A x \in 1..Len(heap) : x # o => heap'[x] = heap[x]
      ]_vars

\* a custom carrier was added and then disabled while "principal" stays
\* enabled, and "fantasma" is a name the registry does not hold
C14_Witness ==
    /\ obtener_operador("fantasma") = 0
    /\ habilitar_operador(heap, operadores, "fantasma", TRUE).ret = FALSE
    /\ obtener_operador("extra") # 0
    /\ ~heap[obtener_operador("extra")].habilitado
    /\ heap[obtener_operador("principal")].habilitado
    /\ heap[obtener_operador("backup1")].habilitado

(* ---------------- calls of detectar_operador_por_numero ---------------- *)

\* longest number a caller passes
MaxDigitos == 5

\* the characters of the numbers passed
Caracteres == {"0", "1", "2", "3", "5", "7", " "}

noDeteccion == <<heap, operadores, ultimo, now, cola, registros, rate_limiters,
                 limitadores, admitidos, hilo, cambios, fallosBD, seleccion>>

\* the caller builds the number it is going to pass, one character more
Marcar(c) ==
    /\ Len(deteccion.numero) < MaxDigitos
    /\ deteccion' = [numero |-> Append(deteccion.numero, c), operador |-> ""]
    /\ UNCHANGED noDeteccion

\* router.detectar_operador_por_numero(numero) is called and returns
Detectar ==
    /\ deteccion.operador = ""
    /\ deteccion' = [deteccion EXCEPT
                       !.operador = detectar_operador_por_numero(deteccion.numero)]
    /\ UNCHANGED noDeteccion

NextDetectar ==
    \/ \E c \in Caracteres : Marcar(c)
    \/ Detectar

SpecDetectar == InitComun /\ [][NextDetectar]_vars

\* the digits a number is matched on: its characters without surrounding
\* blanks and without a leading country code 57
SinPais(numero) ==
    LET s == Strip(numero)
    IN IF Len(s) >= 2 /\ SubSeq(s, 1, 2) = <<"5", "7">>
       THEN SubSeq(s, 3, Len(s)) ELSE s

\* the carriers whose prefix set holds the first three digits of r
Coincidentes(r) ==
    {i \in 1..Len(OPERADOR_PREFIJOS) :
        /\ Len(r) >= 3
        /\ \E k \in 1..Len(OPERADOR_PREFIJOS[i].prefijos) :
              OPERADOR_PREFIJOS[i].prefijos[k] = SubSeq(r, 1, 3)}

\* C15: a call of detectar_operador_por_numero returns the carrier whose
\* prefix set holds the first three digits of the number once a leading
\* country code 57 is taken away, and the default carrier 'principal' when
\* no set holds them, numbers of fewer than three digits included; it
\* always returns.
C15_DetectaPorPrefijo ==
    deteccion.operador # "" =>
        LET r == SinPais(deteccion.numero)
        IN /\ \A i \in Coincidentes(r) :
                 deteccion.operador = OPERADOR_PREFIJOS[i].operador
           /\ Coincidentes(r) = {} => deteccion.operador = "principal"
           /\ Len(r) < 3 => deteccion.operador = "principal"

\* the number 57301 was detected as claro
C15_Witness ==
    /\ deteccion.numero = <<"5", "7", "3", "0", "1">>
    /\ deteccion.operador = "claro"

\* thread p starts an invocation of procesar_cola or reintentar_fallidos
\* with this step and has a batch to go through
Empieza(p) == hilo[p].pc = "idle" /\ hilo'[p].pc = "bucle"

C17_ContenidoRenderizado ==
    \A p \in Hilos :
        (hilo[p].pc = "vuelo" /\ hilo[p].op # "directo") =>
            hilo[p].msg = preparar_mensaje(cola[hilo[p].qid].mensaje,
                                           cola[hilo[p].qid].row_data,
                                           cola[hilo[p].qid].link)

\* C18: an attempt issues at most one request, and only after it has
\* completed exactly one esperar() on a limiter; the limiter it waits at is
\* the one the limiter map holds for the carrier of the attempt when the
\* attempt takes it; no request is issued before that.
C18_LimitadorAntesDeEnviar ==
    [][ \A p \in Hilos :
          /\ hilo'[p].posts <= 1
          /\ hilo'[p].posts = hilo'[p].adq
          /\ hilo'[p].pc = "vuelo" =>
                hilo'[p].posts = 1 /\ hilo'[p].lim \in 1..Len(limitadores')
          /\ hilo'[p].pc \in {"limitador", "esperar"} => hilo'[p].posts = 0
          /\ (hilo[p].pc = "limitador" /\ hilo'[p].pc = "esperar") =>
                hilo'[p].lim = rate_limiters'[hilo'[p].nombre]
          /\ (hilo[p].pc = "esperar" /\ hilo'[p].pc = "vuelo") =>
                hilo'[p].lim = hilo[p].lim /\ hilo'[p].adq = hilo[p].adq + 1
      ]_vars

\* a request is in flight for the custom carrier "extra" after one
\* acquisition of the limiter the map holds for it
C18_Witness ==
    \E p \in Hilos :
        /\ hilo[p].pc = "vuelo"
        /\ hilo[p].nombre = "extra"
        /\ hilo[p].adq = 1
        /\ hilo[p].posts = 1
        /\ hilo[p].lim = rate_limiters["extra"]
        /\ Len(limitadores) = 1

\* C19: whatever is done on the router, the predefined carrier table and a
\* second router built from it (its mapping is that of RouterInit) show the
\* carriers, flags and selection results they showed at the start.
C19_OtroRouterIntacto ==
    /\ \A i \in 1..Len(OPERADORES_PREDEFINIDOS) :
          heap[OPERADORES_PREDEFINIDOS[i].obj]
              = ObjetosPredefinidos[OPERADORES_PREDEFINIDOS[i].obj]
    /\ \A intento \in 0..MaxIntento :
          SiguienteEn(RouterInit, heap, intento)
              = SiguienteEn(RouterInit, ObjetosPredefinidos, intento)

(* ------ obtener_operador_siguiente while the registry is changed ------- *)

noSeleccion == <<ultimo, now, cola, registros, rate_limiters, limitadores,
                 admitidos, hilo, cambios, fallosBD, deteccion>>

\* the call starts: the iterator over the dict's values is created
EmpezarSeleccion(intento) ==
    /\ seleccion.pc # "iterando"
    /\ seleccion' = [pc |-> "iterando", intento |-> intento, k |-> 1,
                     tam |-> Len(operadores), lista |-> <<>>, res |-> 0,
                     candidatos |-> {SiguienteEn(operadores, heap, intento)}]
    /\ UNCHANGED <<heap, operadores>>
    /\ UNCHANGED noSeleccion

\* one step of the list comprehension.  The iterator raises RuntimeError
\* when the dict's size is not the one it was created with; otherwise it
\* yields the value at its position, whose habilitado flag is read; when it
\* is exhausted the list is sorted and indexed, or 'principal' is looked up
LeerOperador ==
    LET s == seleccion
        o == operadores[s.k].obj
        habs == OrdenarPorPrioridad(s.lista, heap)
    IN /\ s.pc = "iterando"
       /\ seleccion' =
            IF Len(operadores) # s.tam THEN [s EXCEPT !.pc = "error"]
            ELSE IF s.k <= s.tam
            THEN [s EXCEPT !.k = s.k + 1,
                           !.lista = IF heap[o].habilitado THEN Append(s.lista, o)
                                     ELSE s.lista]
            ELSE [s EXCEPT !.pc = "hecho",
                           !.res = IF habs = <<>>
                                   THEN operadores[Posicion(operadores, "principal")].obj
                                   ELSE habs[(s.intento % Len(habs)) + 1]]
       /\ UNCHANGED <<heap, operadores>>
       /\ UNCHANGED noSeleccion

\* the registry has a new state: what the running call would return on it
Anotar(s, dic, h) ==
    IF s.pc = "iterando"
    THEN [s EXCEPT !.candidatos = @ \cup {SiguienteEn(dic, h, s.intento)}]
    ELSE s

\* habilitar_operador called by another thread
HabilitarDurante(nombre, habilitado) ==
    /\ heap' = habilitar_operador(heap, operadores, nombre, habilitado).heap
    /\ seleccion' = Anotar(seleccion, operadores, heap')
    /\ UNCHANGED operadores
    /\ UNCHANGED noSeleccion

\* agregar_operador called by another thread
AgregarDurante(config) ==
    /\ Len(heap) < MaxObjetos
    /\ heap' = Append(heap, config)
    /\ operadores' = agregar_operador(operadores, config.operador, Len(heap) + 1)
    /\ seleccion' = Anotar(seleccion, operadores', heap')
    /\ UNCHANGED noSeleccion

NextSeleccion ==
    \/ \E i \in 0..MaxIntento : EmpezarSeleccion(i)
    \/ LeerOperador
    \/ \E n \in Nombres, b \in BOOLEAN : HabilitarDurante(n, b)
    \/ \E c \in Personalizados : AgregarDurante(c)

SpecSeleccion == InitComun /\ [][NextSeleccion]_vars

\* C20: a call of obtener_operador_siguiente made while other threads
\* enable, disable or add carriers never raises, and the carrier it returns
\* is the one the selection gives on one of the states the registry was in
\* during the call.
C20_SeleccionConsistente ==
    /\ seleccion.pc # "error"
    /\ seleccion.pc = "hecho" => seleccion.res \in seleccion.candidatos

====
